---- MODULE Spec2Model ----
(***************************************************************************)
(* INTELLICAB-V2: the boundary-crossing detector, the cloud detection      *)
(* server (accept loop, handshake, frame reassembly, per-frame pipeline)   *)
(* and the capture endpoints that connect to it.                           *)
(***************************************************************************)
EXTENDS Integers, Sequences, FiniteSets, TLC

(***************************************************************************)
(* Bounds of the model.                                                    *)
(***************************************************************************)
\* longest side history kept of the watched object in the detector harness
MaxSegs == 4
\* events counted of the watched object in the detector harness
MaxCount == 3
\* connections opened to the server in one run of Spec
MaxConns == 2
\* frames a client frames on one connection in Spec
SessionFrames == 1
\* frames a client frames on the one connection of SpecWire
MaxFrames == 2
\* zero-byte reads counted per session
MaxZeroReads == 2
\* start_detection threads launched by the Pi backend
MaxThreads == 2
\* calibration requests of the app in the calibration harness
MaxRequests == 2
\* snapshots queued when the app or the heartbeat writes the document
MaxSnaps == 3
\* object ids the tracker hands out in the tracker harness
MaxIds == 3
\* frames without a detection counted from the start of the tracker harness
MaxQuiet == 3

(***************************************************************************)
(* Small helpers.                                                          *)
(***************************************************************************)
Min(a, b) == IF a < b THEN a ELSE b

Max(a, b) == IF a > b THEN a ELSE b

RECURSIVE SortedSeq(_)
\* the elements of a finite set of integers in ascending order
SortedSeq(S) ==
  IF S = {} THEN <<>>
  ELSE LET m == CHOOSE x \in S : \A y \in S : x <= y
       IN  <<m>> \o SortedSeq(S \ {m})

RECURSIVE SelectIds(_, _)
\* the sub-sequence of ids that belong to the set keep
SelectIds(ids, keep) ==
  IF ids = <<>> THEN <<>>
  ELSE (IF Head(ids) \in keep THEN <<Head(ids)>> ELSE <<>>)
         \o SelectIds(Tail(ids), keep)

(***************************************************************************)
(* direction_detector.py : DirectionDetector                               *)
(***************************************************************************)
\* Python's None for a boundary / a side
NoBoundary == <<>>

NoSide == "NONE"

\* DirectionDetector.__init__
dd_new == [boundary |-> NoBoundary,
           prev_positions |-> <<>>,
           crossed_objects |-> {}]

\* DirectionDetector.set_boundary
set_boundary(dd, points) == [dd EXCEPT !.boundary = points]

\* the cross product with its two terms exchanged
cross_d_exchanged(boundary, point) ==
  (point[2] - boundary[1][2]) * (boundary[2][1] - boundary[1][1])
    - (point[1] - boundary[1][1]) * (boundary[2][2] - boundary[1][2])

\* the cross product of get_side
cross_d(boundary, point) ==
  LET x1 == boundary[1][1]
      y1 == boundary[1][2]
      x2 == boundary[2][1]
      y2 == boundary[2][2]
      px == point[1]
      py == point[2]
  IN  (px - x1) * (y2 - y1) - (py - y1) * (x2 - x1)

\* DirectionDetector.get_side
get_side(boundary, point) ==
  IF boundary = NoBoundary THEN NoSide
  ELSE LET d == cross_d(boundary, point)
       IN  IF d > 0 THEN "IN"
           ELSE IF d < 0 THEN "OUT"
           ELSE NoSide

\* a crossing test that takes an undefined side for a side
dd_crossing_any_change(dd, obj_id, current_side) ==
  /\ obj_id \in DOMAIN dd.prev_positions
  /\ dd.prev_positions[obj_id].side # current_side
  /\ obj_id \notin dd.crossed_objects

\* a crossing test that leaves out the crossed mark
dd_crossing_marked_ok(dd, obj_id, current_side) ==
  /\ obj_id \in DOMAIN dd.prev_positions
  /\ dd.prev_positions[obj_id].side # NoSide
  /\ current_side # NoSide
  /\ dd.prev_positions[obj_id].side # current_side

\* a crossing test that takes an undefined previous side for a side
dd_crossing_undefined_prev(dd, obj_id, current_side) ==
  /\ obj_id \in DOMAIN dd.prev_positions
  /\ current_side # NoSide
  /\ dd.prev_positions[obj_id].side # current_side
  /\ obj_id \notin dd.crossed_objects

\* the crossing test of update (lines 60-65): the object has a previous
\* entry, both sides are defined and differ, and it is not marked crossed
dd_crossing(dd, obj_id, current_side) ==
  /\ obj_id \in DOMAIN dd.prev_positions
  /\ dd.prev_positions[obj_id].side # NoSide
  /\ current_side # NoSide
  /\ dd.prev_positions[obj_id].side # current_side
  /\ obj_id \notin dd.crossed_objects

\* an event that reports the side the object left
dd_event_side_left(obj_id, obj_data, current_side) ==
  [object_id |-> obj_id,
   label     |-> obj_data.label,
   direction |-> IF current_side = "IN" THEN "OUT" ELSE "IN",
   centroid  |-> obj_data.centroid]

\* the event built by update (lines 67-73); the timestamp is left out
dd_event(obj_id, obj_data, current_side) ==
  [object_id |-> obj_id,
   label     |-> obj_data.label,
   direction |-> current_side,
   centroid  |-> obj_data.centroid]

\* the entry written to prev_positions (lines 77-81)
dd_entry(boundary, obj_data) ==
  [centroid |-> obj_data.centroid,
   side     |-> get_side(boundary, obj_data.centroid),
   label    |-> obj_data.label]

\* crossed_objects when an emitting object is not marked
dd_crossed_after_unmarked(dd, objects, emitting) ==
  dd.crossed_objects \cap DOMAIN objects

\* crossed_objects after the loop and the clean-up (lines 75, 84-87)
dd_crossed_after(dd, objects, emitting) ==
  (dd.crossed_objects \cup emitting) \cap DOMAIN objects

\* prev_positions where the entry of an object already known is left as
\* it was
dd_prev_after_first_seen(dd, objects) ==
  [id \in DOMAIN objects |->
     IF id \in DOMAIN dd.prev_positions THEN dd.prev_positions[id]
     ELSE dd_entry(dd.boundary, objects[id])]

\* prev_positions without the clean-up of disappeared objects
dd_prev_after_kept(dd, objects) ==
  [id \in DOMAIN objects \cup DOMAIN dd.prev_positions |->
     IF id \in DOMAIN objects THEN dd_entry(dd.boundary, objects[id])
     ELSE dd.prev_positions[id]]

\* prev_positions after the loop and the clean-up (lines 77-86)
dd_prev_after(dd, objects) ==
  [id \in DOMAIN objects |-> dd_entry(dd.boundary, objects[id])]

\* an update without the early return of lines 50-51
dd_update_unguarded(dd, objects) ==
  LET side(id)  == get_side(dd.boundary, objects[id].centroid)
      emitting  == {id \in DOMAIN objects : dd_crossing(dd, id, side(id))}
      order     == SelectIds(SortedSeq(DOMAIN objects), emitting)
  IN  [dd |-> [boundary        |-> dd.boundary,
               prev_positions  |-> dd_prev_after(dd, objects),
               crossed_objects |-> dd_crossed_after(dd, objects, emitting)],
       events |-> [i \in 1..Len(order) |->
                     dd_event(order[i], objects[order[i]], side(order[i]))]]

\* DirectionDetector.update: the detector afterwards and the events returned.
\* Each object is handled independently of the others (its own keys only),
\* in the order of the objects dict (ascending ids).
dd_update(dd, objects) ==
  IF dd.boundary = NoBoundary THEN [dd |-> dd, events |-> <<>>]
  ELSE
    LET side(id)  == get_side(dd.boundary, objects[id].centroid)
        emitting  == {id \in DOMAIN objects : dd_crossing(dd, id, side(id))}
        order     == SelectIds(SortedSeq(DOMAIN objects), emitting)
    IN  [dd |-> [boundary        |-> dd.boundary,
                 prev_positions  |-> dd_prev_after(dd, objects),
                 crossed_objects |-> dd_crossed_after(dd, objects, emitting)],
         events |-> [i \in 1..Len(order) |->
                       dd_event(order[i], objects[order[i]], side(order[i]))]]

(***************************************************************************)
(* The wire: struct.pack("Q", n) / struct.unpack("Q", b) and UTF-8.        *)
(* Bytes are integers 0..255, byte strings are sequences of them, text is  *)
(* the sequence of its code points.                                        *)
(***************************************************************************)
\* struct.calcsize("Q")
payload_size == 8

\* the argument of conn.recv in the frame loop
RecvBufSize == 4096

\* a length no byte string of the model reaches: what a prefix with a
\* non-zero byte among its five high bytes unpacks to (at least 2^24)
HugeSize == 256 * 65536

\* struct.pack("Q", n), little-endian, for n < 2^24
Pack(n) ==
  <<n % 256, (n \div 256) % 256, (n \div 65536) % 256, 0, 0, 0, 0, 0>>

\* struct.unpack("Q", b)[0] for an 8-byte string b; values from 2^24 on are
\* all represented by HugeSize
Unpack(b) ==
  IF \E i \in 4..8 : b[i] # 0 THEN HugeSize
  ELSE b[1] + 256 * b[2] + 65536 * b[3]

\* bytes.decode('utf-8') succeeds; the model's bytes are ASCII (below 128)
\* or in 0xF8..0xFF, which no valid UTF-8 text contains
IsUtf8(bs) == \A i \in 1..Len(bs) : bs[i] < 128

\* data[:n]
Take(s, n) == SubSeq(s, 1, Min(n, Len(s)))

\* data[n:]
Drop(s, n) == SubSeq(s, Min(n, Len(s)) + 1, Len(s))

\* line 200: data = data[payload_size:]
rest_after_size(buf) == Drop(buf, payload_size)

\* a buffer that is emptied after each frame instead
rest_after_frame_reset(buf, size) == <<>>

\* line 208: data = data[msg_size:]
rest_after_frame(buf, size) == Drop(buf, size)

\* one record on the wire: 8-byte length prefix, then the payload
Record(payload) == Pack(Len(payload)) \o payload

(***************************************************************************)
(* centroid_tracker.py : CentroidTracker (the file is not part of the      *)
(* sources at hand; modelled from section 4.3 of the specification).       *)
(***************************************************************************)
\* CentroidTracker(maxDisappeared=30)
maxDisappeared == 30

\* a fresh tracker
ct_new == [nextObjectID |-> 0, objects |-> <<>>, disappeared |-> <<>>]

\* centre of a bounding box (x1, y1, x2, y2)
Centroid(box) == <<(box[1] + box[3]) \div 2, (box[2] + box[4]) \div 2>>

\* squared Euclidean distance (orders pairs as the distance does)
Dist2(p, q) ==
  (p[1] - q[1]) * (p[1] - q[1]) + (p[2] - q[2]) * (p[2] - q[2])

\* a registration under the lowest id no live object has
ct_register_reuse(trk, centroid, label) ==
  LET free == CHOOSE n \in 0..trk.nextObjectID :
                /\ n \notin DOMAIN trk.objects
                /\ \A k \in 0..(n - 1) : k \in DOMAIN trk.objects
  IN  [nextObjectID |-> trk.nextObjectID + 1,
       objects      |-> [id \in DOMAIN trk.objects \cup {free} |->
                           IF id = free
                           THEN [centroid |-> centroid, label |-> label]
                           ELSE trk.objects[id]],
       disappeared  |-> [id \in DOMAIN trk.disappeared \cup {free} |->
                           IF id = free THEN 0 ELSE trk.disappeared[id]]]

\* register one detection under the next id
ct_register(trk, centroid, label) ==
  [nextObjectID |-> trk.nextObjectID + 1,
   objects      |-> [id \in DOMAIN trk.objects \cup {trk.nextObjectID} |->
                       IF id = trk.nextObjectID
                       THEN [centroid |-> centroid, label |-> label]
                       ELSE trk.objects[id]],
   disappeared  |-> [id \in DOMAIN trk.disappeared \cup {trk.nextObjectID} |->
                       IF id = trk.nextObjectID THEN 0
                       ELSE trk.disappeared[id]]]

RECURSIVE ct_register_all(_, _, _)
\* register the detections whose indexes are listed, in order
ct_register_all(trk, dets, idx) ==
  IF idx = <<>> THEN trk
  ELSE ct_register_all(
         ct_register(trk, Centroid(dets[Head(idx)].box), dets[Head(idx)].label),
         dets, Tail(idx))

RECURSIVE ct_greedy(_, _, _)
\* greedy matching in ascending distance: the set of bound (id, index)
\* pairs; ties go to the lower id, then to the lower detection index
ct_greedy(trk, dets, bound) ==
  LET ids  == DOMAIN trk.objects \ {b[1] : b \in bound}
      js   == (1..Len(dets)) \ {b[2] : b \in bound}
      d(p) == Dist2(trk.objects[p[1]].centroid, Centroid(dets[p[2]].box))
      less(p, q) ==
        \/ d(p) < d(q)
        \/ d(p) = d(q) /\ p[1] < q[1]
        \/ d(p) = d(q) /\ p[1] = q[1] /\ p[2] <= q[2]
  IN  IF ids = {} \/ js = {} THEN bound
      ELSE LET best == CHOOSE p \in ids \X js : \A q \in ids \X js : less(p, q)
           IN  ct_greedy(trk, dets, bound \cup {best})

\* the ids bound to a detection by update
ct_matched(trk, dets) ==
  IF DOMAIN trk.objects = {} THEN {}
  ELSE {b[1] : b \in ct_greedy(trk, dets, {})}

\* an update that deregisters once the count reaches maxDisappeared
ct_update_eager(trk, dets) ==
  IF DOMAIN trk.objects = {}
  THEN ct_register_all(trk, dets, [i \in 1..Len(dets) |-> i])
  ELSE
    LET bound   == ct_greedy(trk, dets, {})
        det_of(id) == CHOOSE j \in 1..Len(dets) : <<id, j>> \in bound
        matched == {b[1] : b \in bound}
        count(id) == IF id \in matched THEN 0 ELSE trk.disappeared[id] + 1
        kept    == {id \in DOMAIN trk.objects : count(id) < maxDisappeared}
        after   == [nextObjectID |-> trk.nextObjectID,
                    objects |-> [id \in kept |->
                      IF id \in matched
                      THEN [centroid |-> Centroid(dets[det_of(id)].box),
                            label    |-> dets[det_of(id)].label]
                      ELSE trk.objects[id]],
                    disappeared |-> [id \in kept |-> count(id)]]
        fresh   == SelectIds([i \in 1..Len(dets) |-> i],
                             (1..Len(dets)) \ {b[2] : b \in bound})
    IN  ct_register_all(after, dets, fresh)

\* CentroidTracker.update(rects, labels): the tracker afterwards; the
\* objects returned are its objects field
ct_update(trk, dets) ==
  IF DOMAIN trk.objects = {}
  THEN ct_register_all(trk, dets, [i \in 1..Len(dets) |-> i])
  ELSE
    LET bound   == ct_greedy(trk, dets, {})
        det_of(id) == CHOOSE j \in 1..Len(dets) : <<id, j>> \in bound
        matched == {b[1] : b \in bound}
        count(id) == IF id \in matched THEN 0 ELSE trk.disappeared[id] + 1
        kept    == {id \in DOMAIN trk.objects : count(id) <= maxDisappeared}
        after   == [nextObjectID |-> trk.nextObjectID,
                    objects |-> [id \in kept |->
                      IF id \in matched
                      THEN [centroid |-> Centroid(dets[det_of(id)].box),
                            label    |-> dets[det_of(id)].label]
                      ELSE trk.objects[id]],
                    disappeared |-> [id \in kept |-> count(id)]]
        fresh   == SelectIds([i \in 1..Len(dets) |-> i],
                             (1..Len(dets)) \ {b[2] : b \in bound})
    IN  ct_register_all(after, dets, fresh)

(***************************************************************************)
(* The world around the server: the devices collection of Firestore, the   *)
(* images a camera can send and what the YOLO model finds in them.         *)
(***************************************************************************)
\* current_device_id before the first handshake (the attribute is not set)
NoDevice == <<0 - 1>>

\* boundary_original before a boundary was loaded (hasattr is false)
NoOriginal == [x1 |-> 0, y1 |-> 0, x2 |-> 0, y2 |-> 0]

\* device ids as UTF-8 bytes: "AA" has a boundary, "B" has a document
\* without one, every other id has no document
DeviceA == <<65, 65>>

DeviceB == <<66>>

DeviceIds == {DeviceA, DeviceB}

\* db.collection('devices').document(device_id).get()
DeviceDoc(device_id) ==
  IF device_id = DeviceA
  THEN [exists |-> TRUE, has_boundary |-> TRUE,
        boundary |-> [x1 |-> 0, y1 |-> 2, x2 |-> 3, y2 |-> 2],
        calibration_width |-> 4, calibration_height |-> 4]
  ELSE IF device_id = DeviceB
  THEN [exists |-> TRUE, has_boundary |-> FALSE, boundary |-> NoOriginal,
        calibration_width |-> 4, calibration_height |-> 4]
  ELSE [exists |-> FALSE, has_boundary |-> FALSE, boundary |-> NoOriginal,
        calibration_width |-> 4, calibration_height |-> 4]

\* the boundary of DeviceA once it was drawn again
RedrawnBoundary == [x1 |-> 0, y1 |-> 1, x2 |-> 3, y2 |-> 1]

\* the device document as it reads once redrawn is set
DocAfter(device_id, redrawn) ==
  IF redrawn # <<>> /\ device_id = DeviceA
  THEN [DeviceDoc(device_id) EXCEPT !.boundary = RedrawnBoundary]
  ELSE DeviceDoc(device_id)

\* the frames of the model with the detections the YOLO model returns for
\* them (confidence in percent): an object above the line, and an object
\* below it in a wider frame
Images ==
  << [width |-> 4, height |-> 4,
      dets |-> << [box |-> <<0, 0, 2, 0>>, label |-> "can", conf |-> 90] >>],
     [width |-> 8, height |-> 4,
      dets |-> << [box |-> <<0, 3, 2, 3>>, label |-> "can", conf |-> 90] >>] >>

\* the JPEG bytes of image k: one byte that is no valid UTF-8
Jpeg(k) == <<248 + k>>

\* bytes that are no image
Garbage == <<7>>

\* the payloads a camera sends in the model
Payloads == {Jpeg(k) : k \in 1..Len(Images)} \cup {Garbage}

\* cv2.imdecode: the index of the image, 0 for None
Decode(frame_data) ==
  IF \E k \in 1..Len(Images) : frame_data = Jpeg(k)
  THEN CHOOSE k \in 1..Len(Images) : frame_data = Jpeg(k)
  ELSE 0

(***************************************************************************)
(* pi/smart_cabinet_pi_backend.py and pi/pi_camera_client.py: the bytes a  *)
(* capture endpoint sends on a connection it opens, as records             *)
(* [type, payload] in the order of the sendall calls.                      *)
(***************************************************************************)
FrameRecords(payloads) ==
  [i \in 1..Len(payloads) |-> [type |-> "frame", payload |-> payloads[i]]]

\* SmartCabinetPiBackend.start_detection: the device id (lines 273-275),
\* then one record per encoded frame (line 309). The server is checked
\* against every sender that frames its records this way; what the threads
\* of the backend themselves get to send is modelled further down
start_detection(id, payloads) ==
  <<[type |-> "id", payload |-> id]>> \o FrameRecords(payloads)

\* CameraClient.run / stream_frames: frames from the first record on
stream_frames(id, payloads) == FrameRecords(payloads)

\* the records of a client of the given kind
ClientRecords(kind, id, payloads) ==
  IF kind = "backend" THEN start_detection(id, payloads)
  ELSE stream_frames(id, payloads)

RECURSIVE WireOf(_)
\* the bytes of a sequence of records: each is sent as prefix + payload
WireOf(records) ==
  IF records = <<>> THEN <<>>
  ELSE Record(Head(records).payload) \o WireOf(Tail(records))

(***************************************************************************)
(* pi/smart_cabinet_pi_backend.py : SmartCabinetPiBackend, its attributes  *)
(* and the sockets its threads create. A socket is named by its number in  *)
(* the order of creation; 0 stands for None.                               *)
(***************************************************************************)
\* the attributes set by __init__ (lines 55-59)
pi_new == [running |-> FALSE, socket |-> 0, cloud_server_ip |-> FALSE]

\* the fields of the device document that listen_for_commands reads, as
\* register_device writes them (lines 79-96): boundary and cloud_server_ip
\* are set later by the app (TRUE: present)
register_device ==
  [detection_enabled |-> FALSE, boundary |-> FALSE, cloud_server_ip |-> FALSE]

\* the calibration fields of the device document as register_device
\* writes them (line 86): images counts the writes of calibration_image
register_calibration == [calibration_requested |-> FALSE, images |-> 0]

\* socket.socket(...) of line 266
socket_new == [state |-> "new", ids |-> 0]

\* line 269: connect succeeds only on a socket that is neither connected
\* nor closed (None has no connect: AttributeError)
can_connect(socks, sk) == sk # 0 /\ socks[sk].state = "new"

\* lines 274-275, 309: sendall succeeds only on a connected socket
can_send(socks, sk) == sk # 0 /\ socks[sk].state = "connected"

\* stop_detection, line 348
stop_running(b) == [b EXCEPT !.running = FALSE]

\* stop_detection, lines 355-362, the sockets afterwards: shutdown raises on
\* a socket that is not connected and the bare except skips close()
stop_close(b, socks) ==
  IF can_send(socks, b.socket)
  THEN [socks EXCEPT ![b.socket].state = "closed"]
  ELSE socks

\* stop_detection, lines 355-362, the attributes afterwards
stop_forget(b) == [b EXCEPT !.socket = 0]

\* stop_detection, lines 365-368
stop_status(doc) == [doc EXCEPT !.detection_enabled = FALSE]

\* a thread as threading.Thread(target=self.start_detection).start() leaves
\* it (line 134): sock is the socket it created, stopped tells that a stop
\* command ran while it was in its send loop, left how it left the loop
thread_new == [pc |-> "start", sock |-> 0, stopped |-> FALSE, left |-> "no"]

(***************************************************************************)
(* cloud_server/firebase_sender.py : FirebaseSender                        *)
(***************************************************************************)
\* a send_event whose write is not inside a try
send_event_unguarded(initialized, id, write_ok) ==
  IF ~initialized THEN "False"
  ELSE IF id = <<>> THEN "False"
  ELSE IF write_ok THEN "True"
  ELSE "raise"

\* FirebaseSender.send_event: what the call returns ("True", "False"), or
\* "raise" where an exception leaves it. id is event.get('device_id'),
\* empty for None and for ''; write_ok is FALSE where a line of the try
\* block (39-56) raises
send_event(initialized, id, write_ok) ==
  IF ~initialized THEN "False"
  ELSE IF id = <<>> THEN "False"
  ELSE IF write_ok THEN "True"
  ELSE "False"

(***************************************************************************)
(* cloud_server/cloud_detection_server.py : CloudDetectionServer           *)
(***************************************************************************)
\* the attributes of the server object after __init__ (lines 58-79).
\* current_device_id, boundary_original, the calibration resolution and
\* boundary_scaled are first set by process_frames: has_original is
\* hasattr(self, 'boundary_original'), and boundary_scaled, which the code
\* only reads as getattr(self, 'boundary_scaled', False), is FALSE until set
srv_new ==
  [current_device_id  |-> NoDevice,
   has_original       |-> FALSE,
   boundary_original  |-> NoOriginal,
   calibration_width  |-> 0,
   calibration_height |-> 0,
   boundary_scaled    |-> FALSE,
   frame_count        |-> 0,
   total_events       |-> 0]

\* a scaling with the two resolutions exchanged
scale_coord_inverse(v, frame_dim, calib_dim) ==
  IF v >= 0 THEN (v * calib_dim) \div frame_dim
  ELSE 0 - (((0 - v) * calib_dim) \div frame_dim)

\* int(v * (frame / calibration)): the product truncated towards zero
scale_coord(v, frame_dim, calib_dim) ==
  IF v >= 0 THEN (v * frame_dim) \div calib_dim
  ELSE 0 - (((0 - v) * frame_dim) \div calib_dim)

\* no clamping
clamp_none(v, dim) == v

\* max(0, min(v, dim - 1))
clamp(v, dim) == Max(0, Min(v, dim - 1))

\* the scaled points of lines 251-269
scaled_points(s, frame) ==
  LET sx(v) == clamp(scale_coord(v, frame.width, s.calibration_width),
                     frame.width)
      sy(v) == clamp(scale_coord(v, frame.height, s.calibration_height),
                     frame.height)
  IN  << <<sx(s.boundary_original.x1), sy(s.boundary_original.y1)>>,
         <<sx(s.boundary_original.x2), sy(s.boundary_original.y2)>> >>

\* a condition that rescales on every frame
needs_scaling_every_frame(s) == s.has_original

\* the condition of line 250
needs_scaling(s) ==
  s.has_original /\ ~s.boundary_scaled

\* process_frames, lines 146-179: the attributes after the boundary of the
\* device was looked up (db is None when Firebase failed to initialise)
load_boundary(s, db, doc, lookup_ok) ==
  IF db /\ lookup_ok /\ doc.exists /\ doc.has_boundary
  THEN [s EXCEPT !.has_original       = TRUE,
                 !.boundary_original  = doc.boundary,
                 !.calibration_width  = doc.calibration_width,
                 !.calibration_height = doc.calibration_height,
                 !.boundary_scaled    = FALSE]
  ELSE s

\* process_single_frame, lines 249-271: auto-scale on the first frame
auto_scale(s, dd, frame) ==
  IF needs_scaling(s)
  THEN [srv |-> [s EXCEPT !.boundary_scaled = TRUE],
        dd  |-> set_boundary(dd, scaled_points(s, frame))]
  ELSE [srv |-> s, dd |-> dd]

\* every detection kept, whatever its confidence
confident_all(dets) == dets

\* lines 293-303: the detections kept (conf > 0.8)
confident(dets) == SelectSeq(dets, LAMBDA d : d.conf > 80)

\* process_single_frame, lines 249-331 and 386: the attributes, the tracker
\* and the detector afterwards, and the events of this frame
process_single_frame(s, trk, dd, frame) ==
  LET sc   == auto_scale(s, dd, frame)
      trk2 == ct_update(trk, confident(frame.dets))
      up   == dd_update(sc.dd, trk2.objects)
  IN  [srv |-> [sc.srv EXCEPT
                  !.total_events = s.total_events + Len(up.events),
                  !.frame_count  = s.frame_count + 1],
       tracker |-> trk2,
       dd      |-> up.dd,
       events  |-> up.events]

(***************************************************************************)
(* State.                                                                  *)
(***************************************************************************)
VARIABLES
  firebase,            \* firebase_sender and db are not None
  srv,                 \* the attributes of the CloudDetectionServer object
  tracker,             \* self.tracker
  direction_detector,  \* self.direction_detector
  srv_pc,              \* where start_server / process_frames stands
  conn,                \* the connection process_frames serves (0: none)
  device_id_size,      \* locals of process_frames
  device_id,
  data,
  msg_size,
  conns,               \* every connection opened so far, by number
  backlog,             \* connections waiting in the listen queue
  events_log,          \* every event of process_single_frame, in order
  interrupted,         \* a KeyboardInterrupt was raised
  dd_in,               \* detector harness: the objects of the last update
  dd_events,           \* detector harness: the events it returned
  dd_segs,             \* detector harness: sides of object 0 while tracked
  dd_cnt,              \* detector harness: events of object 0 while tracked
  dd_last,             \* detector harness: object 0's events the update before
  dd_before,           \* detector harness: object 0 emitted an event while
                       \* tracked, and was missing from an update since
  ct_quiet,            \* tracker harness: frames so far, while none of them
                       \* had a detection (-1 once one had)
  ct_kept,             \* tracker harness: detections of the last frame that
                       \* were handed to the tracker
  ct_missed,           \* tracker harness: for every id handed out so far,
                       \* the frames in a row it went unmatched while tracked
  fx_in,               \* function harness: the arguments drawn
  fx_out,              \* function harness: <<result>> once applied
  recalibrated,        \* <<c>> once the boundary of DeviceA was redrawn,
                       \* c the session then past its handshake (0: none)
  pi,                  \* the attributes of the SmartCabinetPiBackend object
  pi_doc,              \* the device document of the Pi in Firestore
  pi_cb,               \* where the on_snapshot callback stands
  pi_threads,          \* the start_detection threads launched, by number
  pi_socks,            \* the sockets they created, by number
  pi_cal,              \* the calibration fields of the device document
  pi_snaps,            \* calibration harness: the snapshots of the document
                       \* not yet delivered to on_snapshot, oldest first
  pi_asked             \* calibration harness: how often the app asked for a
                       \* calibration frame

server_object == <<firebase, srv, tracker, direction_detector>>

locals == <<device_id_size, device_id, data, msg_size>>

network == <<conns, backlog>>

tracking == <<ct_quiet, ct_kept, ct_missed>>

harness == <<dd_in, dd_events, dd_segs, dd_cnt, dd_last, dd_before, ct_quiet,
             ct_kept, ct_missed>>

pure == <<fx_in, fx_out>>

\* what the server, its clients and the detector harness leave alone
backend == <<pi, pi_doc, pi_cb, pi_threads, pi_socks, pi_cal, pi_snaps,
             pi_asked>>

calibration == <<pi_cal, pi_snaps, pi_asked>>

aside == <<fx_in, fx_out, recalibrated, pi, pi_doc, pi_cb, pi_threads,
           pi_socks, pi_cal, pi_snaps, pi_asked>>

vars == <<firebase, srv, tracker, direction_detector, srv_pc, conn,
          device_id_size, device_id, data, msg_size, conns, backlog,
          events_log, interrupted, dd_in, dd_events, dd_segs, dd_cnt, dd_last,
          dd_before, ct_quiet, ct_kept, ct_missed, fx_in, fx_out, recalibrated, pi, pi_doc, pi_cb, pi_threads,
          pi_socks, pi_cal, pi_snaps, pi_asked>>

\* the objects the detector harness feeds to update
HarnessIds == {0, 1}

\* the object whose history the harness keeps
Watched == CHOOSE i \in HarnessIds : \A j \in HarnessIds : i <= j

HarnessPoints == {<<1, 0>>, <<1, 2>>, <<1, 3>>}

HarnessLabels == {"can", "bottle"}

HarnessBoundary == << <<0, 2>>, <<3, 2>> >>

HarnessObjects ==
  UNION {[S -> [centroid : HarnessPoints, label : HarnessLabels]] :
           S \in SUBSET HarnessIds}

\* the Pi backend as left by __init__ and register_device, its device
\* paired by the app (boundary drawn, server address set)
BackendInit ==
  /\ pi = pi_new
  /\ pi_doc = [register_device EXCEPT !.boundary = TRUE,
                                      !.cloud_server_ip = TRUE]
  /\ pi_cb = "idle"
  /\ pi_threads = <<>>
  /\ pi_socks = <<>>
  /\ pi_cal = register_calibration
  /\ pi_snaps = <<>>
  /\ pi_asked = 0

\* the server as left by __init__ with nothing connected
ServerInit ==
  /\ srv = srv_new
  /\ tracker = ct_new
  /\ srv_pc = "accept"
  /\ conn = 0
  /\ device_id_size = 0
  /\ device_id = NoDevice
  /\ data = <<>>
  /\ msg_size = 0
  /\ conns = <<>>
  /\ backlog = <<>>
  /\ events_log = <<>>
  /\ interrupted = FALSE
  /\ recalibrated = <<>>
  /\ BackendInit

HarnessInit ==
  /\ dd_in = <<>>
  /\ dd_events = <<>>
  /\ dd_segs = <<>>
  /\ dd_cnt = 0
  /\ dd_last = <<>>
  /\ dd_before = FALSE
  /\ ct_quiet = 0
  /\ ct_kept = 0
  /\ ct_missed = <<>>

\* nothing drawn for the function harness
PureInit ==
  /\ fx_in = <<>>
  /\ fx_out = <<>>

\* CloudDetectionServer.__init__: Firebase may or may not initialise
Init ==
  /\ firebase \in BOOLEAN
  /\ direction_detector = dd_new
  /\ ServerInit
  /\ HarnessInit
  /\ PureInit

\* a DirectionDetector on its own, with or without a boundary
InitDetector ==
  /\ firebase = FALSE
  /\ direction_detector \in {dd_new, set_boundary(dd_new, HarnessBoundary)}
  /\ ServerInit
  /\ HarnessInit
  /\ PureInit

(***************************************************************************)
(* Detector harness: update called with arbitrary objects.                 *)
(***************************************************************************)
\* the side history of an object after one more frame: consecutive equal
\* sides are kept once, an untracked object has no history
NextSegs(segs, present, side) ==
  IF ~present THEN <<>>
  ELSE IF segs # <<>> /\ segs[Len(segs)] = side THEN segs
  ELSE IF Len(segs) < MaxSegs THEN Append(segs, side)
  ELSE segs

DetUpdate ==
  \E objects \in HarnessObjects :
    LET r == dd_update(direction_detector, objects)
    IN  /\ direction_detector' = r.dd
        /\ dd_in' = objects
        /\ dd_events' = r.events
        /\ dd_last' = SelectSeq(dd_events,
                               LAMBDA e : e.object_id = Watched)
        /\ dd_segs' =
             NextSegs(dd_segs, Watched \in DOMAIN objects,
                      IF Watched \in DOMAIN objects
                      THEN get_side(direction_detector.boundary,
                                    objects[Watched].centroid)
                      ELSE NoSide)
        /\ dd_before' =
             (dd_before \/ (Watched \notin DOMAIN objects /\ dd_cnt > 0))
        /\ dd_cnt' =
             IF Watched \notin DOMAIN objects THEN 0
             ELSE Min(MaxCount,
                      dd_cnt + Cardinality({i \in 1..Len(r.events) :
                                 r.events[i].object_id = Watched}))
        /\ UNCHANGED <<firebase, srv, tracker, srv_pc, conn, locals,
                       network, events_log, interrupted, tracking, aside>>

NextDetector == DetUpdate

SpecDetector == InitDetector /\ [][NextDetector]_vars

(***************************************************************************)
(* Tracker harness: process_single_frame called with frames of arbitrary   *)
(* detections, on a server that has a boundary and no connection.          *)
(***************************************************************************)
\* what the YOLO model finds in the frames of the harness: an object above
\* the line, one below it, and one below it with a low confidence
TrackHigh == [box |-> <<0, 0, 2, 0>>, label |-> "can", conf |-> 90]

TrackLow == [box |-> <<0, 3, 2, 3>>, label |-> "can", conf |-> 90]

TrackFaint == [box |-> <<0, 3, 2, 3>>, label |-> "can", conf |-> 50]

TrackFrames ==
  [width : {4}, height : {4},
   dets : {<<>>, <<TrackHigh>>, <<TrackLow>>, <<TrackHigh, TrackLow>>,
           <<TrackFaint>>, <<TrackHigh, TrackFaint>>}]

\* a server whose detector has a boundary, before its first frame
InitTrack ==
  /\ firebase = TRUE
  /\ direction_detector = set_boundary(dd_new, HarnessBoundary)
  /\ ServerInit
  /\ HarnessInit
  /\ PureInit

\* one frame through lines 282-318 of process_single_frame
TrackFrame ==
  \E frame \in TrackFrames :
    LET r    == process_single_frame(srv, tracker, direction_detector, frame)
        kept == confident(frame.dets)
        hit  == ct_matched(tracker, kept)
    IN  /\ r.tracker.nextObjectID <= MaxIds
        /\ tracker' = r.tracker
        /\ direction_detector' = r.dd
        /\ dd_in' = r.tracker.objects
        /\ dd_events' = r.events
        /\ ct_kept' = Len(kept)
        /\ ct_quiet' =
             IF ct_quiet >= 0 /\ \A i \in 1..Len(frame.dets) :
                                   frame.dets[i].conf <= 80
             THEN Min(MaxQuiet, ct_quiet + 1)
             ELSE 0 - 1
        /\ ct_missed' =
             [id \in DOMAIN ct_missed \cup DOMAIN r.tracker.objects |->
                IF id \in DOMAIN tracker.objects
                THEN IF id \in hit THEN 0 ELSE ct_missed[id] + 1
                ELSE IF id \in DOMAIN ct_missed THEN ct_missed[id]
                ELSE 0]
        /\ UNCHANGED <<firebase, srv, srv_pc, conn, locals, network,
                       events_log, interrupted, dd_segs, dd_cnt, dd_last,
                       dd_before, aside>>

NextTrack == TrackFrame

SpecTrack == InitTrack /\ [][NextTrack]_vars

(***************************************************************************)
(* Clients and the network.                                                *)
(***************************************************************************)
\* a connection as opened by a client of the given kind: records is what
\* the client frames, wire the bytes the server has not yet received
NewConn(kind, id, payloads) ==
  [kind       |-> kind,
   records    |-> ClientRecords(kind, id, payloads),
   wire       |-> WireOf(ClientRecords(kind, id, payloads)),
   peer       |-> "open",
   cut        |-> FALSE,
   state      |-> "pending",
   srv_closed |-> FALSE,
   learnt_id  |-> NoDevice,
   handed     |-> <<>>,
   zero_reads |-> 0,
   ended_by   |-> "none"]

\* the payload sequences of at most n frames
PayloadSeqs(n) == UNION {[1..m -> Payloads] : m \in 0..n}

\* socket.connect: the connection enters the listen queue of the server
Connect(kind, id, payloads) ==
  /\ conns' = Append(conns, NewConn(kind, id, payloads))
  /\ backlog' = Append(backlog, Len(conns) + 1)
  /\ UNCHANGED <<server_object, srv_pc, conn, locals, events_log,
                 interrupted, harness, aside>>

\* a SmartCabinetPiBackend detection thread connects (start_detection);
\* at most nconns connections of at most nframes frames are opened
BackendConnect(nconns, nframes) ==
  /\ Len(conns) < nconns
  /\ \E id \in DeviceIds, payloads \in PayloadSeqs(nframes) :
       Connect("backend", id, payloads)

\* a CameraClient connects (run, then stream_frames)
CameraConnect(nconns, nframes) ==
  /\ Len(conns) < nconns
  /\ \E payloads \in PayloadSeqs(nframes) :
       Connect("camera", DeviceA, payloads)

\* the peer goes away, by close ("fin") or by reset ("rst"): the bytes the
\* server has not received by then are never sent
PeerClose ==
  \E c \in 1..Len(conns), how \in {"fin", "rst"} :
    /\ conns[c].peer = "open"
    /\ ~conns[c].srv_closed
    /\ conns' = [conns EXCEPT ![c].peer = how,
                              ![c].cut  = (conns[c].wire # <<>>),
                              ![c].wire = <<>>]
    /\ UNCHANGED <<server_object, srv_pc, conn, locals, backlog, events_log,
                   interrupted, harness, aside>>

\* the non-empty results conn.recv(bufsize) can return
RecvChunks(c, bufsize) ==
  {Take(conns[c].wire, k) : k \in 1..Min(bufsize, Len(conns[c].wire))}

\* conn.recv returns b'': a zero bufsize, or the peer closed
RecvEmpty(c, bufsize) ==
  bufsize = 0 \/ (conns[c].wire = <<>> /\ conns[c].peer = "fin")

\* conn.recv raises ConnectionResetError
RecvRaises(c) == conns[c].peer = "rst"

\* the connections after the server received chunk p on c
Received(cs, c, p) == [cs EXCEPT ![c].wire = Drop(@, Len(p))]

(***************************************************************************)
(* start_server and process_frames, one step per recv call.                *)
(***************************************************************************)
\* process_frames returns to the accept loop of start_server: its locals
\* are gone
ReturnToAccept ==
  /\ srv_pc' = "accept"
  /\ conn' = 0
  /\ device_id_size' = 0
  /\ device_id' = NoDevice
  /\ data' = <<>>
  /\ msg_size' = 0

\* conn.close() at the end of a session (lines 143 and 242)
Closed(cs, c, how) ==
  [cs EXCEPT ![c].state = "ended", ![c].srv_closed = TRUE,
             ![c].ended_by = how]

\* start_server, line 111: accept() and the call of process_frames
AcceptConn ==
  /\ srv_pc = "accept"
  /\ backlog # <<>>
  /\ conn' = Head(backlog)
  /\ backlog' = Tail(backlog)
  /\ conns' = [conns EXCEPT ![Head(backlog)].state = "active"]
  /\ srv_pc' = "handshake_size"
  /\ UNCHANGED <<server_object, locals, events_log, interrupted, harness, aside>>

HandshakeFailed_forgets(p) ==
  /\ conns' = Closed(Received(conns, conn, p), conn, "handshake")
  /\ ReturnToAccept
  /\ srv' = [srv EXCEPT !.current_device_id = NoDevice]
  /\ UNCHANGED <<firebase, tracker, direction_detector, backlog, events_log,
                 interrupted, harness, aside>>

\* lines 141-144: the handshake failed after chunk p was received
HandshakeFailed(p) ==
  /\ conns' = Closed(Received(conns, conn, p), conn, "handshake")
  /\ ReturnToAccept
  /\ UNCHANGED <<server_object, backlog, events_log, interrupted, harness, aside>>

\* line 137: struct.unpack("Q", conn.recv(8))
HandshakeSize ==
  /\ srv_pc = "handshake_size"
  /\ \/ /\ RecvRaises(conn)
        /\ HandshakeFailed(<<>>)
     \/ /\ RecvEmpty(conn, payload_size)
        /\ HandshakeFailed(<<>>)
     \/ \E p \in RecvChunks(conn, payload_size) :
          IF Len(p) = payload_size
          THEN /\ device_id_size' = Unpack(p)
               /\ conns' = Received(conns, conn, p)
               /\ srv_pc' = "handshake_id"
               /\ UNCHANGED <<server_object, conn, device_id, data, msg_size,
                              backlog, events_log, interrupted, harness, aside>>
          ELSE HandshakeFailed(p)

HandshakeDone_keeps_id(p) ==
  \E lookup_ok \in BOOLEAN :
    /\ device_id' = p
    /\ srv' = load_boundary(srv, firebase, DocAfter(p, recalibrated),
                            lookup_ok)
    /\ conns' = [Received(conns, conn, p) EXCEPT ![conn].learnt_id = p]
    /\ data' = <<>>
    /\ srv_pc' = "recv_size"
    /\ UNCHANGED <<firebase, tracker, direction_detector, conn,
                   device_id_size, msg_size, backlog, events_log,
                   interrupted, harness, aside>>

\* lines 139-182: the device id is known; its boundary is looked up and
\* the frame loop starts with an empty buffer
HandshakeDone(p) ==
  \E lookup_ok \in BOOLEAN :
    /\ device_id' = p
    /\ srv' = load_boundary([srv EXCEPT !.current_device_id = p],
                            firebase, DocAfter(p, recalibrated), lookup_ok)
    /\ conns' = [Received(conns, conn, p) EXCEPT ![conn].learnt_id = p]
    /\ data' = <<>>
    /\ srv_pc' = "recv_size"
    /\ UNCHANGED <<firebase, tracker, direction_detector, conn,
                   device_id_size, msg_size, backlog, events_log,
                   interrupted, harness, aside>>

\* line 138: conn.recv(device_id_size).decode('utf-8')
HandshakeId ==
  /\ srv_pc = "handshake_id"
  /\ \/ /\ RecvRaises(conn)
        /\ HandshakeFailed(<<>>)
     \/ /\ RecvEmpty(conn, device_id_size)
        /\ HandshakeDone(<<>>)
     \/ \E p \in RecvChunks(conn, device_id_size) :
          IF IsUtf8(p) THEN HandshakeDone(p) ELSE HandshakeFailed(p)

\* an exception of the frame loop that ends the accept loop as well
SessionError_stops_server(cs, how) ==
  /\ conns' = [cs EXCEPT ![conn].state = "ended", ![conn].srv_closed = TRUE,
                          ![conn].ended_by = how]
  /\ srv_pc' = "stopped"
  /\ conn' = 0
  /\ device_id_size' = 0
  /\ device_id' = <<0 - 1>>
  /\ data' = <<>>
  /\ msg_size' = 0

\* lines 237-243: an exception other than KeyboardInterrupt ends the frame
\* loop; the connection is closed and process_frames returns
SessionError(cs, how) ==
  /\ conns' = Closed(cs, conn, how)
  /\ ReturnToAccept

\* lines 193-197: one recv of the loop that fills the length prefix
RecvSize ==
  /\ srv_pc = "recv_size"
  /\ Len(data) < payload_size
  /\ \/ /\ RecvRaises(conn)
        /\ SessionError(conns, "reset")
     \/ /\ RecvEmpty(conn, RecvBufSize)
        /\ SessionError([conns EXCEPT ![conn].zero_reads =
                           Min(MaxZeroReads, @ + 1)], "connection_lost")
     \/ \E p \in RecvChunks(conn, RecvBufSize) :
          /\ data' = data \o p
          /\ conns' = Received(conns, conn, p)
          /\ UNCHANGED <<srv_pc, conn, device_id_size, device_id, msg_size>>
  /\ UNCHANGED <<server_object, backlog, events_log, interrupted, harness, aside>>

\* lines 199-201: the prefix is complete
UnpackSize ==
  /\ srv_pc = "recv_size"
  /\ Len(data) >= payload_size
  /\ msg_size' = Unpack(Take(data, payload_size))
  /\ data' = rest_after_size(data)
  /\ srv_pc' = "recv_data"
  /\ UNCHANGED <<server_object, conn, device_id_size, device_id, network,
                 events_log, interrupted, harness, aside>>

\* lines 204-205: one recv of the loop that fills the payload; a zero-byte
\* result is appended like any other
RecvData ==
  /\ srv_pc = "recv_data"
  /\ Len(data) < msg_size
  /\ \/ /\ RecvRaises(conn)
        /\ SessionError(conns, "reset")
     \/ /\ RecvEmpty(conn, RecvBufSize)
        /\ conns[conn].zero_reads < MaxZeroReads
        /\ data' = data \o <<>>
        /\ conns' = [conns EXCEPT ![conn].zero_reads = @ + 1]
        /\ UNCHANGED <<srv_pc, conn, device_id_size, device_id, msg_size>>
     \/ \E p \in RecvChunks(conn, RecvBufSize) :
          /\ data' = data \o p
          /\ conns' = Received(conns, conn, p)
          /\ UNCHANGED <<srv_pc, conn, device_id_size, device_id, msg_size>>
  /\ UNCHANGED <<server_object, backlog, events_log, interrupted, harness, aside>>

\* lines 327-331: send_event is called where there is a sender; the sender
\* of a server is an initialised one, since firestore.client() of line 70
\* raises where the one of FirebaseSender.__init__ did
publish(sender, id, write_ok) ==
  IF sender
  THEN [calls |-> 1, result |-> send_event(TRUE, id, write_ok)]
  ELSE [calls |-> 0, result |-> "none"]

\* the entries of events_log for the events of one frame: the device id
\* put on the event (line 330), whether the write of send_event went
\* through, how often send_event was called and what it returned
Logged(events, oks) ==
  [i \in 1..Len(events) |->
     [conn      |-> conn,
      device_id |-> srv.current_device_id,
      event     |-> events[i],
      write_ok  |-> oks[i],
      calls     |-> publish(firebase, srv.current_device_id, oks[i]).calls,
      result    |-> publish(firebase, srv.current_device_id, oks[i]).result,
      published |->
        publish(firebase, srv.current_device_id, oks[i]).result = "True"]]

\* the events handled by the loop of lines 321-331 before an exception of
\* send_event leaves it: all of them where none is raised
Handled(logged) ==
  IF \E i \in 1..Len(logged) : logged[i].result = "raise"
  THEN SubSeq(logged, 1, CHOOSE i \in 1..Len(logged) :
                           /\ logged[i].result = "raise"
                           /\ \A j \in 1..(i - 1) : logged[j].result # "raise")
  ELSE logged

\* lines 207-233: the payload is complete; it is cut off the buffer,
\* decoded and processed
ProcessFrame ==
  /\ srv_pc = "recv_data"
  /\ Len(data) >= msg_size
  /\ LET frame_data == Take(data, msg_size)
         k  == Decode(frame_data)
         cs == [conns EXCEPT ![conn].handed = Append(@, frame_data)]
     IN  \/ /\ k = 0
            /\ SessionError(cs, "decode_error")
            /\ UNCHANGED <<server_object, events_log>>
         \/ /\ k # 0
            /\ LET sc == auto_scale(srv, direction_detector, Images[k])
               IN  /\ srv' = sc.srv
                   /\ direction_detector' = sc.dd
            /\ SessionError(cs, "detect_error")
            /\ UNCHANGED <<firebase, tracker, events_log>>
         \/ /\ k # 0
            /\ LET r == process_single_frame(srv, tracker, direction_detector,
                                             Images[k])
               IN  \E oks \in [1..Len(r.events) -> BOOLEAN] :
                     LET logged == Logged(r.events, oks)
                     IN  /\ tracker' = r.tracker
                         /\ direction_detector' = r.dd
                         /\ events_log' = events_log \o Handled(logged)
                         /\ IF Handled(logged) = logged
                            THEN /\ srv' = r.srv
                                 /\ conns' = cs
                                 /\ data' = rest_after_frame(data, msg_size)
                                 /\ srv_pc' = "recv_size"
                                 /\ UNCHANGED <<conn, device_id_size,
                                                device_id, msg_size>>
                            ELSE /\ srv' = [r.srv EXCEPT
                                          !.total_events = srv.total_events
                                                + Len(Handled(logged)),
                                          !.frame_count = srv.frame_count]
                                 /\ SessionError(cs, "publish_error")
            /\ UNCHANGED firebase
  /\ UNCHANGED <<backlog, interrupted, harness, aside>>

\* KeyboardInterrupt: process_frames closes the connection only inside the
\* frame loop (finally, line 242); start_server leaves its loop (line 123)
Interrupt ==
  /\ srv_pc # "stopped"
  /\ srv_pc' = "stopped"
  /\ interrupted' = TRUE
  /\ conn' = 0
  /\ device_id_size' = 0
  /\ device_id' = NoDevice
  /\ data' = <<>>
  /\ msg_size' = 0
  /\ conns' = IF srv_pc \in {"recv_size", "recv_data"}
              THEN Closed(conns, conn, "interrupt")
              ELSE IF conn # 0
              THEN [conns EXCEPT ![conn].state = "ended",
                                 ![conn].ended_by = "interrupt"]
              ELSE conns
  /\ UNCHANGED <<server_object, backlog, events_log, harness, aside>>

\* the steps of the server
ServerStep ==
  \/ AcceptConn
  \/ HandshakeSize
  \/ HandshakeId
  \/ RecvSize
  \/ UnpackSize
  \/ RecvData
  \/ ProcessFrame
  \/ Interrupt

\* several short connections, one after the other or at once
Next ==
  \/ BackendConnect(MaxConns, SessionFrames)
  \/ CameraConnect(MaxConns, SessionFrames)
  \/ PeerClose
  \/ ServerStep

Spec == Init /\ [][Next]_vars

\* one connection with more frames on it
NextWire ==
  \/ BackendConnect(1, MaxFrames)
  \/ CameraConnect(1, MaxFrames)
  \/ PeerClose
  \/ ServerStep

SpecWire == Init /\ [][NextWire]_vars

\* the listen queue is empty and the server waits in accept()
Idle == srv_pc = "accept" /\ backlog = <<>>

\* no detection thread of a backend has connected yet
NoBackendYet == \A c \in 1..Len(conns) : conns[c].kind = "camera"

\* sessions one after the other: a client connects while the server waits
\* in accept() with nothing queued. A camera client may come first, with a
\* short stream, and the backend of the cabinet after it, with a longer one
NextSessions ==
  \/ (Idle /\ CameraConnect(1, SessionFrames))
  \/ (Idle /\ NoBackendYet /\ BackendConnect(MaxConns, MaxFrames))
  \/ PeerClose
  \/ ServerStep

SpecSessions == Init /\ [][NextSessions]_vars

\* FirebaseSender.send_event called on its own: a sender whose __init__
\* went through or not, an event with a device id or without, a write that
\* goes through or raises
ApplySend ==
  /\ \E initialized \in BOOLEAN, id \in DeviceIds \cup {<<>>},
        write_ok \in BOOLEAN :
       /\ fx_in' = [initialized |-> initialized, device_id |-> id,
                    write_ok |-> write_ok]
       /\ fx_out' = <<send_event(initialized, id, write_ok)>>
  /\ UNCHANGED <<server_object, srv_pc, conn, locals, network, events_log,
                 interrupted, harness, recalibrated, backend>>

\* one connection with more frames on it, and send_event on its own
NextPublish ==
  \/ BackendConnect(1, MaxFrames)
  \/ CameraConnect(1, MaxFrames)
  \/ PeerClose
  \/ ServerStep
  \/ ApplySend

SpecPublish == Init /\ [][NextPublish]_vars

\* the app writes a new boundary to the document of DeviceA
Recalibrate ==
  /\ recalibrated = <<>>
  /\ recalibrated' = <<IF srv_pc \in {"recv_size", "recv_data"}
                        THEN conn ELSE 0>>
  /\ UNCHANGED <<server_object, srv_pc, conn, locals, network, events_log,
                 interrupted, harness, pure, backend>>

\* one connection, and the boundary may be redrawn at any time
NextConfig ==
  \/ BackendConnect(1, MaxFrames)
  \/ CameraConnect(1, MaxFrames)
  \/ PeerClose
  \/ ServerStep
  \/ Recalibrate

SpecConfig == Init /\ [][NextConfig]_vars

(***************************************************************************)
(* SmartCabinetPiBackend: the on_snapshot callback of listen_for_commands, *)
(* the start_detection threads it launches and stop_detection, one step    *)
(* per access to the attributes they share (running, socket) or to the     *)
(* device document. Snapshots are delivered one at a time, at any moment   *)
(* (the heartbeat and the threads' own status writes trigger them too),    *)
(* and show the document as it is.                                         *)
(***************************************************************************)
\* what detection on the Pi backend leaves alone
cloud == <<server_object, srv_pc, conn, locals, network, events_log,
           interrupted, harness, pure, recalibrated, calibration>>

\* thread t moves on
Moved(t, pc) == [pi_threads EXCEPT ![t].pc = pc]

\* the app switches detection on or off in the device document
AppToggle ==
  /\ pi_doc' = [pi_doc EXCEPT !.detection_enabled = ~@]
  /\ UNCHANGED <<pi, pi_cb, pi_threads, pi_socks, cloud>>

SnapshotStart_unpaired ==
  /\ pi_cb = "idle"
  /\ pi_doc.detection_enabled /\ ~pi.running
  /\ Len(pi_threads) < MaxThreads
  /\ pi' = [pi EXCEPT !.cloud_server_ip = TRUE]
  /\ pi_threads' = Append(pi_threads, thread_new)
  /\ UNCHANGED <<pi_doc, pi_cb, pi_socks, cloud>>

\* on_snapshot, lines 125-134: detection enabled and not running
SnapshotStart ==
  /\ pi_cb = "idle"
  /\ pi_doc.detection_enabled /\ ~pi.running
  /\ pi_doc.boundary /\ pi_doc.cloud_server_ip
  /\ Len(pi_threads) < MaxThreads
  /\ pi' = [pi EXCEPT !.cloud_server_ip = TRUE]
  /\ pi_threads' = Append(pi_threads, thread_new)
  /\ UNCHANGED <<pi_doc, pi_cb, pi_socks, cloud>>

\* on_snapshot, lines 138-140: detection disabled and running; the callback
\* enters stop_detection and clears running (line 348)
SnapshotStop ==
  /\ pi_cb = "idle"
  /\ ~pi_doc.detection_enabled /\ pi.running
  /\ pi' = stop_running(pi)
  /\ pi_threads' = [t \in DOMAIN pi_threads |->
                      IF pi_threads[t].pc = "loop"
                      THEN [pi_threads[t] EXCEPT !.stopped = TRUE]
                      ELSE pi_threads[t]]
  /\ pi_cb' = "stop_close"
  /\ UNCHANGED <<pi_doc, pi_socks, cloud>>

\* stop_detection in the callback, lines 355-362
CallbackClose ==
  /\ pi_cb = "stop_close"
  /\ pi_socks' = stop_close(pi, pi_socks)
  /\ pi' = stop_forget(pi)
  /\ pi_cb' = "stop_status"
  /\ UNCHANGED <<pi_doc, pi_threads, cloud>>

\* stop_detection in the callback, lines 365-368
CallbackStatus ==
  /\ pi_cb = "stop_status"
  /\ pi_doc' = stop_status(pi_doc)
  /\ pi_cb' = "idle"
  /\ UNCHANGED <<pi, pi_threads, pi_socks, cloud>>

\* start_detection, lines 252-256: cloud_server_ip is set, running = True
ThreadStart ==
  \E t \in DOMAIN pi_threads :
    /\ pi_threads[t].pc = "start"
    /\ pi.cloud_server_ip
    /\ pi' = [pi EXCEPT !.running = TRUE]
    /\ pi_threads' = Moved(t, "status")
    /\ UNCHANGED <<pi_doc, pi_cb, pi_socks, cloud>>

\* start_detection, lines 259-262: the status write, outside the try; when
\* it raises the thread ends there
ThreadStatus ==
  \E t \in DOMAIN pi_threads, ok \in BOOLEAN :
    /\ pi_threads[t].pc = "status"
    /\ IF ok
       THEN /\ pi_doc' = [pi_doc EXCEPT !.detection_enabled = TRUE]
            /\ pi_threads' = Moved(t, "create")
       ELSE /\ pi_doc' = pi_doc
            /\ pi_threads' = Moved(t, "dead")
    /\ UNCHANGED <<pi, pi_cb, pi_socks, cloud>>

\* start_detection, line 266: self.socket = socket.socket(...)
ThreadCreate ==
  \E t \in DOMAIN pi_threads :
    /\ pi_threads[t].pc = "create"
    /\ pi_socks' = Append(pi_socks, socket_new)
    /\ pi' = [pi EXCEPT !.socket = Len(pi_socks) + 1]
    /\ pi_threads' = [pi_threads EXCEPT ![t].pc = "connect",
                                        ![t].sock = Len(pi_socks) + 1]
    /\ UNCHANGED <<pi_doc, pi_cb, cloud>>

\* start_detection, lines 268-269: self.socket.connect(...), on whatever
\* self.socket is by now; an exception leads to the finally of line 342
ThreadConnect ==
  \E t \in DOMAIN pi_threads, reachable \in BOOLEAN :
    /\ pi_threads[t].pc = "connect"
    /\ IF can_connect(pi_socks, pi.socket) /\ reachable
       THEN /\ pi_socks' = [pi_socks EXCEPT ![pi.socket].state = "connected"]
            /\ pi_threads' = Moved(t, "send_id")
       ELSE /\ pi_socks' = pi_socks
            /\ pi_threads' = Moved(t, "stop_running")
    /\ UNCHANGED <<pi, pi_doc, pi_cb, cloud>>

\* start_detection, lines 273-275: the device id sent on self.socket
ThreadSendId ==
  \E t \in DOMAIN pi_threads :
    /\ pi_threads[t].pc = "send_id"
    /\ IF can_send(pi_socks, pi.socket)
       THEN /\ pi_socks' = [pi_socks EXCEPT ![pi.socket].ids = @ + 1]
            /\ pi_threads' = Moved(t, "loop")
       ELSE /\ pi_socks' = pi_socks
            /\ pi_threads' = Moved(t, "stop_running")
    /\ UNCHANGED <<pi, pi_doc, pi_cb, cloud>>

\* start_detection, lines 286-336: the loop ends when running is false
\* (line 286); otherwise, once frame_interval has passed, line 303 reads
\* cv2.IMWRITE_JPEC_QUALITY, a name OpenCV does not define (the constant is
\* IMWRITE_JPEG_QUALITY): AttributeError, caught at line 338. Either way
\* the thread goes on to the finally of line 342 and line 309 is not reached
ThreadLoop ==
  \E t \in DOMAIN pi_threads :
    /\ pi_threads[t].pc = "loop"
    /\ pi_threads' = [pi_threads EXCEPT
                        ![t].pc = "stop_running",
                        ![t].left = IF pi.running THEN "raised"
                                    ELSE "stopped"]
    /\ UNCHANGED <<pi, pi_doc, pi_cb, pi_socks, cloud>>

\* stop_detection in the finally of a thread, line 348
ThreadStopRunning ==
  \E t \in DOMAIN pi_threads :
    /\ pi_threads[t].pc = "stop_running"
    /\ pi' = stop_running(pi)
    /\ pi_threads' = Moved(t, "stop_close")
    /\ UNCHANGED <<pi_doc, pi_cb, pi_socks, cloud>>

\* stop_detection in the finally of a thread, lines 355-362
ThreadStopClose ==
  \E t \in DOMAIN pi_threads :
    /\ pi_threads[t].pc = "stop_close"
    /\ pi_socks' = stop_close(pi, pi_socks)
    /\ pi' = stop_forget(pi)
    /\ pi_threads' = Moved(t, "stop_status")
    /\ UNCHANGED <<pi_doc, pi_cb, cloud>>

\* stop_detection in the finally of a thread, lines 365-368
ThreadStopStatus ==
  \E t \in DOMAIN pi_threads :
    /\ pi_threads[t].pc = "stop_status"
    /\ pi_doc' = stop_status(pi_doc)
    /\ pi_threads' = Moved(t, "dead")
    /\ UNCHANGED <<pi, pi_cb, pi_socks, cloud>>

\* a socket object that self.socket no longer names and no thread closed:
\* the interpreter closes it when it finalises the object, which Python
\* does not promise to do at any particular time
Finalize ==
  \E sk \in DOMAIN pi_socks :
    /\ sk # pi.socket
    /\ pi_socks[sk].state # "closed"
    /\ pi_socks' = [pi_socks EXCEPT ![sk].state = "closed"]
    /\ UNCHANGED <<pi, pi_doc, pi_cb, pi_threads, cloud>>

NextPi ==
  \/ AppToggle
  \/ SnapshotStart
  \/ SnapshotStop
  \/ CallbackClose
  \/ CallbackStatus
  \/ ThreadStart
  \/ ThreadStatus
  \/ ThreadCreate
  \/ ThreadConnect
  \/ ThreadSendId
  \/ ThreadLoop
  \/ ThreadStopRunning
  \/ ThreadStopClose
  \/ ThreadStopStatus
  \/ Finalize

\* the backend started, no server involved
InitPi ==
  /\ firebase = FALSE
  /\ direction_detector = dd_new
  /\ ServerInit
  /\ HarnessInit
  /\ PureInit

SpecPi == InitPi /\ [][NextPi]_vars

\* the app draws the boundary of the device, or removes it
AppBoundary ==
  /\ pi_doc' = [pi_doc EXCEPT !.boundary = ~@]
  /\ UNCHANGED <<pi, pi_cb, pi_threads, pi_socks, cloud>>

\* the app sets the address of the cloud server, or removes it
AppServer ==
  /\ pi_doc' = [pi_doc EXCEPT !.cloud_server_ip = ~@]
  /\ UNCHANGED <<pi, pi_cb, pi_threads, pi_socks, cloud>>

\* the documents register_device can leave: set(..., merge=True) keeps a
\* boundary and a server address written before the backend started
Registered ==
  {[register_device EXCEPT !.boundary = b, !.cloud_server_ip = ip] :
     b \in BOOLEAN, ip \in BOOLEAN}

\* the backend started on a device that may not be paired yet
InitPairing ==
  /\ firebase = FALSE
  /\ direction_detector = dd_new
  /\ srv = srv_new
  /\ tracker = ct_new
  /\ srv_pc = "accept"
  /\ conn = 0
  /\ device_id_size = 0
  /\ device_id = NoDevice
  /\ data = <<>>
  /\ msg_size = 0
  /\ conns = <<>>
  /\ backlog = <<>>
  /\ events_log = <<>>
  /\ interrupted = FALSE
  /\ recalibrated = <<>>
  /\ pi = pi_new
  /\ pi_doc \in Registered
  /\ pi_cb = "idle"
  /\ pi_threads = <<>>
  /\ pi_socks = <<>>
  /\ pi_cal = register_calibration
  /\ pi_snaps = <<>>
  /\ pi_asked = 0
  /\ HarnessInit
  /\ PureInit

\* the backend, and the app writing every field on_snapshot reads
NextPairing ==
  \/ NextPi
  \/ AppBoundary
  \/ AppServer

SpecPairing == InitPairing /\ [][NextPairing]_vars

(***************************************************************************)
(* Calibration: the first branch of on_snapshot (lines 110-114) with the   *)
(* snapshots the listener of line 145 delivers. Every write to the device  *)
(* document is followed by a snapshot that shows the document after that   *)
(* write; the callback handles one snapshot at a time. Detection and the   *)
(* preview stay switched off, so the rest of the callback does nothing.    *)
(***************************************************************************)
\* what calibration leaves alone
detection == <<server_object, srv_pc, conn, locals, network, events_log,
               interrupted, harness, pure, recalibrated, pi, pi_doc,
               pi_threads, pi_socks>>

\* the app asks for a calibration frame: calibration_requested = true
AppCalibrate ==
  /\ pi_asked < MaxRequests
  /\ ~pi_cal.calibration_requested
  /\ Len(pi_snaps) < MaxSnaps
  /\ pi_cal' = [pi_cal EXCEPT !.calibration_requested = TRUE]
  /\ pi_snaps' = Append(pi_snaps, pi_cal')
  /\ pi_asked' = pi_asked + 1
  /\ UNCHANGED <<pi_cb, detection>>

\* heartbeat, lines 372-381: lastSeen is written every 10 seconds
Heartbeat ==
  /\ Len(pi_snaps) < MaxSnaps
  /\ pi_snaps' = Append(pi_snaps, pi_cal)
  /\ UNCHANGED <<pi_cal, pi_asked, pi_cb, detection>>

\* the listener may skip a state of the document that a later write has
\* replaced before it was delivered
Coalesce ==
  \E i \in 1..(Len(pi_snaps) - 1) :
    /\ pi_snaps' = SubSeq(pi_snaps, 1, i - 1)
                     \o SubSeq(pi_snaps, i + 1, Len(pi_snaps))
    /\ UNCHANGED <<pi_cal, pi_asked, pi_cb, detection>>

\* on_snapshot, lines 105-111: the next snapshot is delivered and its
\* calibration_requested is tested
SnapshotCalibrate ==
  /\ pi_cb = "idle"
  /\ pi_snaps # <<>>
  /\ pi_snaps' = Tail(pi_snaps)
  /\ pi_cb' = IF Head(pi_snaps).calibration_requested THEN "cal_send"
              ELSE "idle"
  /\ UNCHANGED <<pi_cal, pi_asked, detection>>

\* send_calibration_frame, lines 148-193: a frame is captured, encoded and
\* written to calibration_image; any exception on the way is caught and
\* nothing is written
CalibrationSend ==
  \E ok \in BOOLEAN :
    /\ pi_cb = "cal_send"
    /\ pi_cal' = IF ok THEN [pi_cal EXCEPT !.images = @ + 1] ELSE pi_cal
    /\ pi_snaps' = IF ok THEN Append(pi_snaps, pi_cal') ELSE pi_snaps
    /\ pi_cb' = "cal_clear"
    /\ UNCHANGED <<pi_asked, detection>>

\* on_snapshot, line 114: the request is cleared
CalibrationClear ==
  /\ pi_cb = "cal_clear"
  /\ pi_cal' = [pi_cal EXCEPT !.calibration_requested = FALSE]
  /\ pi_snaps' = Append(pi_snaps, pi_cal')
  /\ pi_cb' = "idle"
  /\ UNCHANGED <<pi_asked, detection>>

NextCalibration ==
  \/ AppCalibrate
  \/ Heartbeat
  \/ Coalesce
  \/ SnapshotCalibrate
  \/ CalibrationSend
  \/ CalibrationClear

SpecCalibration == InitPi /\ [][NextCalibration]_vars

(***************************************************************************)
(* Function harness: get_side applied to drawn boundaries and points.      *)
(***************************************************************************)
SideCoords == {0 - 10, 0, 10, 50, 100}

SideBoundaries ==
  {<< <<0, 0>>, <<100, 0>> >>, << <<100, 0>>, <<0, 0>> >>,
   << <<0, 0>>, <<0, 100>> >>, << <<0, 10>>, <<100, 50>> >>,
   << <<10, 10>>, <<10, 10>> >>}

SidePoints == SideCoords \X SideCoords

InitSide ==
  /\ firebase = FALSE
  /\ direction_detector = dd_new
  /\ ServerInit
  /\ HarnessInit
  /\ fx_in \in [fn : {"get_side"}, boundary : SideBoundaries,
                point : SidePoints]
  /\ fx_out = <<>>

\* detector.set_boundary(boundary); detector.get_side(point)
ApplySide ==
  /\ fx_out = <<>>
  /\ fx_out' = <<get_side(set_boundary(dd_new, fx_in.boundary).boundary,
                          fx_in.point)>>
  /\ UNCHANGED <<server_object, srv_pc, conn, locals, network, events_log,
                 interrupted, harness, fx_in, recalibrated, backend>>

NextSide == ApplySide

SpecSide == InitSide /\ [][NextSide]_vars

(***************************************************************************)
(* Function harness: the auto-scale of process_single_frame applied to a   *)
(* drawn calibration boundary, calibration resolution and frame size.      *)
(***************************************************************************)
ScaleCoords == {0 - 1, 0, 100, 500, 700}

CalibWidths == {640, 3}

CalibHeights == {480, 3}

FrameWidths == {1280, 4}

FrameHeights == {960, 4}

InitScale ==
  /\ firebase = TRUE
  /\ direction_detector = dd_new
  /\ ServerInit
  /\ HarnessInit
  /\ fx_in \in [fn : {"auto_scale"},
                boundary : [x1 : ScaleCoords, y1 : ScaleCoords,
                            x2 : ScaleCoords, y2 : ScaleCoords],
                calibration_width  : CalibWidths,
                calibration_height : CalibHeights,
                width  : FrameWidths,
                height : FrameHeights]
  /\ fx_out = <<>>

\* the boundary the detector holds after the first frame of a session whose
\* device document holds the drawn boundary and calibration resolution
ApplyScale ==
  /\ fx_out = <<>>
  /\ LET doc   == [exists |-> TRUE, has_boundary |-> TRUE,
                   boundary |-> fx_in.boundary,
                   calibration_width  |-> fx_in.calibration_width,
                   calibration_height |-> fx_in.calibration_height]
         s     == load_boundary(srv_new, firebase, doc, TRUE)
         frame == [width |-> fx_in.width, height |-> fx_in.height,
                   dets |-> <<>>]
     IN  fx_out' = <<auto_scale(s, dd_new, frame).dd.boundary>>
  /\ UNCHANGED <<server_object, srv_pc, conn, locals, network, events_log,
                 interrupted, harness, fx_in, recalibrated, backend>>

NextScale == ApplyScale

SpecScale == InitScale /\ [][NextScale]_vars

(***************************************************************************)
(* Claims.                                                                 *)
(***************************************************************************)
\* the frame payloads a client framed on connection c
SentPayloads(c) ==
  LET fr == SelectSeq(conns[c].records, LAMBDA r : r.type = "frame")
  IN  [i \in 1..Len(fr) |-> fr[i].payload]

\* the handshake of connection c read the identifier record exactly
HandshakeExact(c) ==
  /\ conns[c].kind = "backend"
  /\ conns[c].learnt_id = conns[c].records[1].payload

\* s is a prefix of t
IsPrefix(s, t) == Len(s) <= Len(t) /\ s = SubSeq(t, 1, Len(s))

\* the device of a session has a boundary the server can load
Configured(id) == firebase /\ DeviceDoc(id).exists /\ DeviceDoc(id).has_boundary

\* C1: one object tracked under one id whose side sequence is IN^a OUT^b
\* IN^c (a, b, c >= 1) has produced exactly two crossing events
C1_TwoCrossings ==
  dd_segs = <<"IN", "OUT", "IN">> => dd_cnt = 2

\* C2: when process_frames starts (right after accept), the tracker holds
\* no objects and prev_positions and crossed_objects are empty
C2_FreshSession ==
  srv_pc = "handshake_size" =>
    /\ DOMAIN tracker.objects = {}
    /\ DOMAIN direction_detector.prev_positions = {}
    /\ direction_detector.crossed_objects = {}

\* C3: every crossing event was emitted in a session whose device has a
\* boundary configured; a session without one emits none
C3_NoBoundaryNoEvents ==
  \A i \in 1..Len(events_log) :
    Configured(conns[events_log[i].conn].learnt_id)

\* C4: a session in which a recv of the frame loop returned zero bytes has
\* ended with its connection closed
C4_ZeroReadEndsSession ==
  \A c \in 1..Len(conns) :
    conns[c].zero_reads > 0 =>
      conns[c].state = "ended" /\ conns[c].srv_closed

\* C5: the step that hands an undecodable payload to decoding leaves the
\* session open, waiting for the next record
C5_DecodeErrorKeepsSession ==
  [][\A c \in 1..Len(conns) :
       (/\ Len(conns'[c].handed) > Len(conns[c].handed)
        /\ Decode(conns'[c].handed[Len(conns'[c].handed)]) = 0)
       => conns'[c].state = "active" /\ ~conns'[c].srv_closed]_vars

\* the bytes of the current record that left the wire and were not yet
\* handed on: the prefix once unpacked, and the buffer
Pending ==
  (IF srv_pc = "recv_data" THEN Pack(msg_size) ELSE <<>>) \o data

C7_DeviceIdExact ==
  \A c \in 1..Len(conns) :
    (conns[c].kind = "backend" /\ conns[c].learnt_id # NoDevice)
      => conns[c].learnt_id = conns[c].records[1].payload

\* C8: on every connection a capture endpoint opens, the first record is
\* the identifier record and every later record is a frame
C8_IdentifierFirst ==
  \A c \in 1..Len(conns) :
    conns[c].records # <<>> =>
      /\ conns[c].records[1].type = "id"
      /\ \A i \in 2..Len(conns[c].records) : conns[c].records[i].type = "frame"

\* C9: a device that connects while another session is streaming frames is
\* accepted without waiting for that session to end
C9_AcceptedWithoutWaiting ==
  (backlog # <<>> /\ srv_pc \in {"recv_size", "recv_data"})
    => ENABLED AcceptConn

\* C10: the accept loop ends only on KeyboardInterrupt; a session that ended
\* for another reason has its connection closed, and the server is back at
\* accept(), ready to take the next connection
C10_ErrorsStayLocal ==
  /\ (srv_pc = "stopped") = interrupted
  /\ \A c \in 1..Len(conns) :
       (conns[c].state = "ended" /\ conns[c].ended_by # "interrupt")
         => conns[c].srv_closed /\ c # conn
  /\ (~interrupted /\ \A c \in 1..Len(conns) : conns[c].state # "active")
       => srv_pc = "accept" /\ conn = 0
  /\ (srv_pc = "accept" /\ backlog # <<>>) => ENABLED AcceptConn

\* C10 witness: a session ended by a decode error, a later one is served
C10_Witness ==
  \E c1, c2 \in 1..Len(conns) :
    /\ conns[c1].ended_by = "decode_error"
    /\ conns[c2].state = "active"
    /\ srv_pc = "recv_size"

\* the side of the object of an event list entry, in the objects given
SideIn(boundary, objects, id) == get_side(boundary, objects[id].centroid)

\* C13: update emits an event for an object only where the object has a
\* recorded previous side, that side and the current side are both defined
\* and differ; and at most one event per object per call
C13_EventOnlyOnSideChange ==
  [][\A i \in 1..Len(dd_events') :
       LET id  == dd_events'[i].object_id
           now == SideIn(direction_detector.boundary, dd_in', id)
       IN  /\ id \in DOMAIN direction_detector.prev_positions
           /\ direction_detector.prev_positions[id].side \in {"IN", "OUT"}
           /\ now \in {"IN", "OUT"}
           /\ now # direction_detector.prev_positions[id].side
           /\ \A j \in 1..Len(dd_events') :
                dd_events'[j].object_id = id => j = i]_vars

\* C13 witness: one update returned an event for each of two objects
C13_Witness == Len(dd_events) = 2

\* C14: an object that emitted an event at one update and whose side
\* differs again at the next update emits no event at that next update
C14_NoEventOnJitter ==
  [][\A i \in 1..Len(dd_events) :
       LET id == dd_events[i].object_id
       IN  (/\ id \in DOMAIN dd_in'
            /\ SideIn(direction_detector.boundary, dd_in', id)
                 # dd_events[i].direction)
           => \A j \in 1..Len(dd_events') : dd_events'[j].object_id # id]_vars

\* C14 witness: the watched object emitted at the update before, is now
\* on the other side, and the last update returned no event for it
C14_Witness ==
  /\ \E i \in 1..Len(dd_last) :
       /\ dd_last[i].object_id = Watched
       /\ dd_last[i].direction = "OUT"
  /\ Watched \in DOMAIN dd_in
  /\ SideIn(direction_detector.boundary, dd_in, Watched) = "IN"
  /\ \A j \in 1..Len(dd_events) : dd_events[j].object_id # Watched

\* C15: get_side is IN iff d > 0, OUT iff d < 0 and no side iff d = 0, with
\* d = (Px-x1)*(y2-y1) - (Py-y1)*(x2-x1); for boundary (0,0)-(100,0) the
\* point (50,-10) is IN and the point (50,10) is OUT
C15_SideIsSignOfD ==
  (fx_in # <<>> /\ fx_out # <<>>) =>
    LET x1 == fx_in.boundary[1][1]
        y1 == fx_in.boundary[1][2]
        x2 == fx_in.boundary[2][1]
        y2 == fx_in.boundary[2][2]
        d  == (fx_in.point[1] - x1) * (y2 - y1)
                - (fx_in.point[2] - y1) * (x2 - x1)
    IN  /\ (fx_out[1] = "IN") <=> (d > 0)
        /\ (fx_out[1] = "OUT") <=> (d < 0)
        /\ (fx_out[1] = NoSide) <=> (d = 0)
        /\ fx_in.boundary = << <<0, 0>>, <<100, 0>> >> =>
             /\ fx_in.point = <<50, 0 - 10>> => fx_out[1] = "IN"
             /\ fx_in.point = <<50, 10>> => fx_out[1] = "OUT"

\* C15 witness: the point (50,-10) was classified against (0,0)-(100,0)
C15_Witness ==
  /\ fx_in # <<>>
  /\ fx_out = <<"IN">>
  /\ fx_in.boundary = << <<0, 0>>, <<100, 0>> >>
  /\ fx_in.point = <<50, 0 - 10>>

\* a is v * dim / cdim truncated to an integer and clamped to 0..dim-1
ScaledClamped(v, dim, cdim, a) ==
  /\ 0 <= a /\ a <= dim - 1
  /\ a > 0 => v * dim >= a * cdim
  /\ a < dim - 1 => v * dim < (a + 1) * cdim

C17_BoundaryInsideFrame ==
  (fx_in # <<>> /\ fx_out # <<>> /\ fx_out[1] # NoBoundary) =>
    \A i \in 1..2 :
      /\ fx_out[1][i][1] \in 0..(fx_in.width - 1)
      /\ fx_out[1][i][2] \in 0..(fx_in.height - 1)

\* C17 witness: a calibration boundary with coordinates outside the
\* calibration frame on both ends was clamped to the edges of the frame
C17_Witness ==
  /\ fx_in # <<>>
  /\ fx_out # <<>>
  /\ fx_in.boundary.x1 < 0
  /\ fx_in.boundary.x2 > fx_in.calibration_width
  /\ fx_out[1][1][1] = 0
  /\ fx_out[1][2][1] = fx_in.width - 1

\* the boundary of a device document scaled to image k
ScaledFor(doc, k) ==
  scaled_points([boundary_original  |-> doc.boundary,
                 calibration_width  |-> doc.calibration_width,
                 calibration_height |-> doc.calibration_height], Images[k])

\* C18: within a session the detector's boundary changes only while the
\* first frame of the session is processed; later frames, whatever their
\* resolution, leave it unchanged
C18_ScaledOncePerSession ==
  [][direction_detector'.boundary # direction_detector.boundary
       => /\ conn # 0
          /\ conns[conn].handed = <<>>
          /\ Len(conns'[conn].handed) = 1]_vars

\* C18 witness: a 4x4 frame and then an 8x4 frame were processed in one
\* session and the boundary is still the one scaled to the 4x4 frame
C18_Witness ==
  \E c \in 1..Len(conns) :
    /\ conns[c].state = "active"
    /\ conns[c].handed = <<Jpeg(1), Jpeg(2)>>
    /\ srv_pc = "recv_size"
    /\ direction_detector.boundary = ScaledFor(DeviceDoc(DeviceA), 1)
    /\ direction_detector.boundary # ScaledFor(DeviceDoc(DeviceA), 2)

\* C19: after a frame was processed with a boundary set, that boundary is
\* the calibration boundary of the session's device scaled to that frame
C19_BoundaryOfCurrentFrame ==
  \A c \in 1..Len(conns) :
    (/\ c = conn
     /\ srv_pc \in {"recv_size", "recv_data"}
     /\ conns[c].handed # <<>>
     /\ direction_detector.boundary # NoBoundary)
    => direction_detector.boundary =
         ScaledFor(DeviceDoc(conns[c].learnt_id),
                   Decode(conns[c].handed[Len(conns[c].handed)]))

\* C20: when the boundary was redrawn while a session was open, the step
\* that processes the next frame of that session leaves the detector with
\* the new boundary scaled to that frame, and the tracked objects are kept
C20_RedrawnBoundaryUsed ==
  [][(/\ conn # 0
      /\ recalibrated = <<conn>>
      /\ srv.has_original
      /\ Len(conns'[conn].handed) > Len(conns[conn].handed)
      /\ conns'[conn].state = "active")
     => /\ direction_detector'.boundary =
             ScaledFor(DocAfter(conns[conn].learnt_id, recalibrated),
                       Decode(conns'[conn].handed[Len(conns'[conn].handed)]))
        /\ DOMAIN tracker.objects \subseteq DOMAIN tracker'.objects]_vars

\* the start_detection threads that have not ended
Alive == {t \in DOMAIN pi_threads : pi_threads[t].pc # "dead"}

\* the connections to the detection server that the device holds open
OpenConnections == {sk \in DOMAIN pi_socks : pi_socks[sk].state = "connected"}

\* C11: the Pi backend never has two start_detection threads alive at once
\* and never holds two open connections to the detection server
C11_OneDetectionSession ==
  /\ Cardinality(Alive) <= 1
  /\ Cardinality(OpenConnections) <= 1

C21_NoBoundaryNoOp ==
  [][direction_detector.boundary = NoBoundary =>
       /\ dd_events' = <<>>
       /\ direction_detector'.prev_positions
            = direction_detector.prev_positions
       /\ direction_detector'.crossed_objects
            = direction_detector.crossed_objects]_vars

\* C21 witness: update was called with two objects on a detector without a
\* boundary
C21_Witness ==
  /\ direction_detector.boundary = NoBoundary
  /\ Cardinality(DOMAIN dd_in) = 2
  /\ dd_events = <<>>
  /\ DOMAIN direction_detector.prev_positions = {}

\* C22: after an update with a boundary set, prev_positions of every object
\* of the call holds the centroid, the side of that centroid and the label
\* of this call, for the objects with an event as for those without
C22_PrevRecorded ==
  [][direction_detector.boundary # NoBoundary =>
       \A id \in DOMAIN dd_in' :
         /\ id \in DOMAIN direction_detector'.prev_positions
         /\ direction_detector'.prev_positions[id] =
              [centroid |-> dd_in'[id].centroid,
               side     |-> SideIn(direction_detector.boundary, dd_in', id),
               label    |-> dd_in'[id].label]]_vars

\* C22 witness: of two objects of one update, one had an event and one had
\* none, and both are recorded with their new sides
C22_Witness ==
  /\ Cardinality(DOMAIN dd_in) = 2
  /\ Len(dd_events) = 1
  /\ \A id \in DOMAIN dd_in :
       direction_detector.prev_positions[id].side
         = SideIn(direction_detector.boundary, dd_in, id)
  /\ \E id \in DOMAIN dd_in :
       /\ dd_events[1].object_id # id
       /\ direction_detector.prev_positions[id].side = "IN"

\* C23: after an update with a boundary set, prev_positions holds exactly
\* the ids of the call and crossed_objects only ids of the call; an id that
\* was missing from the update before has no event at the update it comes
\* back in
C23_DisappearedForgotten ==
  [][direction_detector.boundary # NoBoundary =>
       /\ DOMAIN direction_detector'.prev_positions = DOMAIN dd_in'
       /\ direction_detector'.crossed_objects \subseteq DOMAIN dd_in'
       /\ \A id \in DOMAIN dd_in' \ DOMAIN dd_in :
            \A i \in 1..Len(dd_events') : dd_events'[i].object_id # id]_vars

\* C23 witness: the watched object emitted an event, was missing from an
\* update, came back and has emitted again
C23_Witness ==
  /\ dd_before
  /\ dd_cnt = 1
  /\ Watched \in direction_detector.crossed_objects

\* what send_event returned for the events logged so far: it was called
\* once for each, no exception left it, and it returned False where the
\* event had no device id or the write failed
PublishedOnce ==
  \A i \in 1..Len(events_log) :
    /\ events_log[i].calls = 1
    /\ events_log[i].result \in {"True", "False"}
    /\ (events_log[i].device_id = <<>> \/ ~events_log[i].write_ok)
         => events_log[i].result = "False"

\* C24: send_event raises in no case and returns False when the sender is
\* not initialised, when the event has no device id and when the write
\* fails; the server calls it once for each event emitted; and the step
\* that handled the events of a frame, published or not, leaves the session
\* waiting for the next record with the object of each event still held by
\* the tracker and marked crossed by the detector
C24_PublishFailureHarmless ==
  [][/\ fx_out' # <<>> =>
          /\ fx_out'[1] \in {"True", "False"}
          /\ (\/ ~fx_in'.initialized
              \/ fx_in'.device_id = <<>>
              \/ ~fx_in'.write_ok) => fx_out'[1] = "False"
     /\ PublishedOnce'
     /\ Len(events_log') > Len(events_log) =>
          /\ srv_pc' = "recv_size"
          /\ conn' = conn
          /\ conns'[conn].state = "active"
          /\ ~conns'[conn].srv_closed
          /\ srv'.frame_count = srv.frame_count + 1
          /\ \A i \in (Len(events_log) + 1)..Len(events_log') :
               LET e == events_log'[i].event
               IN  /\ e.object_id \in DOMAIN tracker'.objects
                   /\ tracker'.objects[e.object_id].centroid = e.centroid
                   /\ e.object_id \in direction_detector'.crossed_objects
                   /\ direction_detector'.prev_positions[e.object_id].side
                        = e.direction]_vars

\* C24 witness: the write of an event failed, the session waits for the
\* next record, and a sender that is not initialised returned False
C24_Witness ==
  /\ \E i \in 1..Len(events_log) :
       /\ events_log[i].result = "False"
       /\ conns[events_log[i].conn].state = "active"
       /\ events_log[i].conn = conn
  /\ srv_pc = "recv_size"
  /\ fx_in # <<>>
  /\ ~fx_in.initialized
  /\ fx_out = <<"False">>

\* C25: while no frame since the fresh start had a detection, the tracker
\* returns no object and the detector no event, after any number of frames
C25_NoDetectionsNothingTracked ==
  ct_quiet > 0 =>
    /\ DOMAIN tracker.objects = {}
    /\ DOMAIN dd_in = {}
    /\ dd_events = <<>>

\* C25 witness: frame after frame without a detection, up to the count kept
C25_Witness ==
  /\ ct_quiet = MaxQuiet
  /\ DOMAIN tracker.objects = {}
  /\ tracker.nextObjectID = 0

\* C26: every detection handed to the tracker has an object id of its own
\* among the objects returned, and an id that comes up in the objects
\* returned was never handed out before, so the id of a deregistered object
\* is not given to a later one
C26_IdsNeverReused ==
  [][/\ \A id \in DOMAIN tracker'.objects \ DOMAIN tracker.objects :
          id \notin DOMAIN ct_missed
     /\ Cardinality(DOMAIN tracker'.objects) >= ct_kept'
     /\ DOMAIN dd_in' = DOMAIN tracker'.objects]_vars

\* C26 witness: an object was deregistered, and two objects registered
\* after it are live
C26_Witness ==
  /\ \E id \in DOMAIN ct_missed :
       /\ id \notin DOMAIN tracker.objects
       /\ \A live \in DOMAIN tracker.objects : live > id
  /\ Cardinality(DOMAIN tracker.objects) = 2

\* C27: an object unmatched for up to maxDisappeared frames in a row is
\* still among the objects of the tracker, with that count; it is
\* deregistered by the unmatched frame after those, not earlier; and a
\* match sets its count back to 0
C27_DeregisteredAfterThreshold ==
  \A id \in DOMAIN ct_missed :
    /\ ct_missed[id] <= maxDisappeared =>
         /\ id \in DOMAIN tracker.objects
         /\ tracker.disappeared[id] = ct_missed[id]
    /\ ct_missed[id] > maxDisappeared =>
         /\ id \notin DOMAIN tracker.objects
         /\ ct_missed[id] = maxDisappeared + 1

\* C27 witness: one object is live after maxDisappeared unmatched frames
\* in a row, another went with the frame after its maxDisappeared-th
C27_Witness ==
  /\ \E id \in DOMAIN tracker.objects : ct_missed[id] = maxDisappeared
  /\ \E id \in DOMAIN ct_missed :
       /\ id \notin DOMAIN tracker.objects
       /\ ct_missed[id] = maxDisappeared + 1

\* C28: an object id has at most one event for as long as it is present in
\* every update, however often its side changes after the event
C28_OneEventPerLifetime ==
  /\ dd_cnt <= 1
  /\ (dd_cnt = 1 /\ Watched \in DOMAIN dd_in /\ dd_last # <<>>)
       => \A i \in 1..Len(dd_events) : dd_events[i].object_id # Watched

\* C28 witness: the watched object changed side three times while tracked
\* and has one event
C28_Witness ==
  /\ dd_segs = <<"IN", "OUT", "IN", "OUT">>
  /\ dd_cnt = 1

\* C29: an update that finds an object on the boundary line (d = 0) has no
\* event for it and records its side as undefined; an update that finds
\* the recorded side of an object undefined has no event for it; so the
\* sides IN, on the line, OUT of one tracked object give no event
C29_OnLineNoEvent ==
  [][direction_detector.boundary # NoBoundary =>
       /\ \A id \in DOMAIN dd_in' :
            (\/ cross_d(direction_detector.boundary, dd_in'[id].centroid) = 0
             \/ /\ id \in DOMAIN direction_detector.prev_positions
                /\ direction_detector.prev_positions[id].side = NoSide)
            => \A i \in 1..Len(dd_events') : dd_events'[i].object_id # id
       /\ \A id \in DOMAIN dd_in' :
            cross_d(direction_detector.boundary, dd_in'[id].centroid) = 0
            => direction_detector'.prev_positions[id].side = NoSide
       /\ dd_segs' = <<"IN", NoSide, "OUT">> => dd_cnt' = 0]_vars

\* C29 witness: the watched object was seen IN, then on the line, then
\* OUT, and has no event
C29_Witness ==
  /\ dd_segs = <<"IN", NoSide, "OUT">>
  /\ dd_cnt = 0
  /\ SideIn(direction_detector.boundary, dd_in, Watched) = "OUT"

\* C30: every event of an update has direction IN or OUT, which is the
\* side of the event's centroid under the boundary and differs from the
\* side recorded for the object by the update before; object_id, label and
\* centroid are those of an object of this update
C30_EventDescribesCrossing ==
  [][\A i \in 1..Len(dd_events') :
       LET e == dd_events'[i]
       IN  /\ e.direction \in {"IN", "OUT"}
           /\ e.direction = get_side(direction_detector.boundary, e.centroid)
           /\ e.object_id \in DOMAIN direction_detector.prev_positions
           /\ e.direction
                # direction_detector.prev_positions[e.object_id].side
           /\ e.object_id \in DOMAIN dd_in'
           /\ e.label = dd_in'[e.object_id].label
           /\ e.centroid = dd_in'[e.object_id].centroid]_vars

\* C30 witness: an update returned an IN event for one object and an OUT
\* event for another, one of them under a label it did not have before
C30_Witness ==
  /\ Len(dd_events) = 2
  /\ dd_events[1].direction # dd_events[2].direction
  /\ dd_events[1].label # dd_events[2].label
  /\ dd_segs = <<"OUT", "IN">>

\* C31: every event passed to send_event carries the device id learnt in
\* the handshake of the connection its frame arrived on, whatever sessions
\* came before, a session whose handshake failed included
C31_EventCarriesSessionDevice ==
  \A i \in 1..Len(events_log) :
    events_log[i].calls = 1 =>
      /\ conns[events_log[i].conn].learnt_id # NoDevice
      /\ events_log[i].device_id = conns[events_log[i].conn].learnt_id

\* an event was passed to send_event on the second connection, after a
\* session that failed in its handshake or one of another device
C31_Witness ==
  /\ Len(conns) = 2
  /\ \E i \in 1..Len(events_log) :
       /\ events_log[i].calls = 1
       /\ events_log[i].conn = 2
       /\ events_log[i].device_id = DeviceA
  /\ \/ conns[1].ended_by = "handshake"
     \/ conns[1].learnt_id \notin {NoDevice, DeviceA}

\* what lines 125-132 of on_snapshot require before a thread is launched
C32_Paired ==
  /\ pi_doc.detection_enabled
  /\ ~pi.running
  /\ pi_doc.boundary
  /\ pi_doc.cloud_server_ip

\* C32: a start_detection thread is launched only from a snapshot with
\* detection_enabled true, a boundary and a cloud_server_ip, while running
\* is false; a socket is created only by a thread launched that way, so
\* without a boundary or without a server address nothing is started and
\* nothing is opened
C32_StartOnlyWhenPaired ==
  [][/\ (Len(pi_threads') > Len(pi_threads) => C32_Paired)
     /\ ((~pi_doc.boundary \/ ~pi_doc.cloud_server_ip)
           => Len(pi_threads') = Len(pi_threads))
     /\ (Len(pi_socks') > Len(pi_socks)
           => \E t \in DOMAIN pi_threads : pi_threads[t].pc = "create")
     /\ Len(pi_socks') <= Len(pi_threads')]_vars

\* detection is enabled on a device with its boundary or its server address
\* missing: no thread and no socket so far
C32_Waiting ==
  /\ pi_doc.detection_enabled
  /\ ~pi_doc.boundary \/ ~pi_doc.cloud_server_ip
  /\ pi_threads = <<>>
  /\ pi_socks = <<>>

\* a paired device with detection enabled: one thread was launched and has
\* created its socket
C32_Witness ==
  /\ pi_doc.detection_enabled
  /\ pi_doc.boundary /\ pi_doc.cloud_server_ip
  /\ Len(pi_threads) = 1
  /\ pi_threads[1].pc = "connect"
  /\ Len(pi_socks) = 1

\* thread t takes the step from pc a to pc b
C33_Steps(t, a, b) ==
  /\ t \in DOMAIN pi_threads
  /\ pi_threads[t].pc = a
  /\ pi_threads'[t].pc = b

\* thread u was started after thread t and is in its session: it has set
\* running and has not reached its own cleanup
C33_LaterSession(t, u) ==
  /\ u > t
  /\ pi_threads[u].pc \in {"status", "create", "connect", "send_id", "loop"}

\* C33: the stop_detection a terminating thread runs in its finally
\* touches only its own session: it does not clear running under a thread
\* started later, does not close or forget the socket such a thread
\* opened, and no thread sends on a socket another thread opened
C33_CleanupOwnSession ==
  [][\A t \in DOMAIN pi_threads :
       /\ C33_Steps(t, "stop_running", "stop_close") =>
            ~\E u \in DOMAIN pi_threads : C33_LaterSession(t, u)
       /\ C33_Steps(t, "stop_close", "stop_status") =>
            ~\E u \in DOMAIN pi_threads :
                /\ u > t
                /\ pi_threads[u].sock # 0
                /\ \/ pi_socks'[pi_threads[u].sock].state
                        # pi_socks[pi_threads[u].sock].state
                   \/ (pi.socket = pi_threads[u].sock /\ pi'.socket = 0)
       /\ C33_Steps(t, "send_id", "loop") =>
            pi.socket = pi_threads[t].sock]_vars

\* C34: the calibration frames uploaded never outnumber the requests of
\* the app: one request, one frame, with the writes of the backend itself
\* coming back as snapshots
C34_OneFramePerRequest == pi_cal.images <= pi_asked

\* C35: a start_detection thread that has set running leaves running false
\* and self.socket None when it ends, however it ends; stated for a thread
\* that ends while no other thread is alive
C35_TerminatedThreadResets ==
  [][\A t \in DOMAIN pi_threads :
       (/\ pi_threads[t].pc \notin {"start", "dead"}
        /\ pi_threads'[t].pc = "dead"
        /\ \A u \in DOMAIN pi_threads \ {t} : pi_threads[u].pc = "dead")
       => (~pi'.running /\ pi'.socket = 0)]_vars

=============================================================================
